---- MODULE Spec2Model ----
(***************************************************************************)
(* Touka Assist: the survey record pipeline of the React application.      *)
(* App.jsx holds the form, the record store, the recognition call and the  *)
(* CSV export; ImagePreview.jsx holds the file selection and the PDF page  *)
(* navigation; the settings dialog holds the API key.                      *)
(*                                                                         *)
(* Text is a sequence of one-character strings.  A JSON value is a record  *)
(* [t, s]: t is its JavaScript type, s its String() form.  An object (the  *)
(* form data, a record's data) lives in a heap of mappings and is held by  *)
(* reference, as in JavaScript.                                            *)
(***************************************************************************)
EXTENDS Integers, Sequences, FiniteSets, TLC

VARIABLES
    image,          \* App: useState(null)   File object, data URL or null
    imagePreview,   \* App: useState(null)   data URL or null
    ocrText,        \* App: useState('')     which message the text area shows
    isProcessing,   \* App: useState(false)
    formData,       \* App: useState({})     reference into heap
    results,        \* App: useState([])     records {id, timestamp, data}
    activeTab,      \* App: useState('input')
    fileType,       \* App: useState('image')
    apiKey,         \* App: useState('')
    showSettings,   \* App: useState(false)
    ocrMode,        \* App: useState('structured')
    storage,        \* localStorage entry gemini_api_key
    inputKey,       \* ApiKeySettings: useState(apiKey || '')
    currentPage,    \* ImagePreview: useState(1)
    totalPages,     \* ImagePreview: useState(1)
    isPdfFile,      \* ImagePreview: useState(false)
    pdfFile,        \* ImagePreview: useState(null)
    isLoadingPage,  \* ImagePreview: useState(false)
    heap,           \* the objects that formData and the records refer to
    tasks,          \* asynchronous work in flight, in start order
    now,            \* the reading of Date.now()
    download,       \* the file produced by the last export
    last            \* the handler that ran last, its alert and its exception

appVars     == <<image, imagePreview, ocrText, isProcessing, activeTab, fileType, ocrMode>>
keyVars     == <<apiKey, showSettings, storage, inputKey>>
previewVars == <<currentPage, totalPages, isPdfFile, pdfFile, isLoadingPage>>
storeVars   == <<formData, results, heap>>
vars == <<appVars, keyVars, previewVars, storeVars, tasks, now, download, last>>

----------------------------------------------------------------------------
(* Bounds of the model *)

MaxRecords == 2     \* records in the store
MaxClock   == 1     \* the clock reads 0..MaxClock
MaxTasks   == 2     \* asynchronous operations in flight
MaxPages   == 4     \* pages of the longest PDF

----------------------------------------------------------------------------
(* Text and JSON values *)

DQ    == "\""
COMMA == ","
NL    == "\n"

Str(s)  == [t |-> "string",  s |-> s]
Num(s)  == [t |-> "number",  s |-> s]
JNull   == [t |-> "null",    s |-> <<"n", "u", "l", "l">>]
JFalse  == [t |-> "boolean", s |-> <<"f", "a", "l", "s", "e">>]
JTrue   == [t |-> "boolean", s |-> <<"t", "r", "u", "e">>]
JObject == [t |-> "object",  s |-> <<"[", "o", "b", "j", "]">>]

EmptyText == <<>>

\* JavaScript truthiness, as used by  r.data[q.id] || ''
Truthy(v) ==
    CASE v.t = "string"  -> v.s # EmptyText
      [] v.t = "number"  -> v.s # <<"0">>
      [] v.t = "null"    -> FALSE
      [] v.t = "boolean" -> v = JTrue
      [] OTHER           -> TRUE

\* An object: a mapping from some keys to JSON values
EmptyObj == [k \in {} |-> Str(EmptyText)]

Put(m, k, v) == [x \in (DOMAIN m) \cup {k} |-> IF x = k THEN v ELSE m[x]]

----------------------------------------------------------------------------
(* The field catalog.  A label is one token: the labels of the source hold *)
(* no comma, no newline and no double quote.                               *)

QUESTIONS == <<
    [id |-> "patient_id",       label |-> "L_patient_id"],
    [id |-> "name_sei",         label |-> "L_name_sei"],
    [id |-> "name_mei",         label |-> "L_name_mei"],
    [id |-> "birthday",         label |-> "L_birthday"],
    [id |-> "gender",           label |-> "L_gender"],
    [id |-> "blood_type",       label |-> "L_blood_type"],
    [id |-> "height",           label |-> "L_height"],
    [id |-> "weight",           label |-> "L_weight"],
    [id |-> "diabetes",         label |-> "L_diabetes"],
    [id |-> "dyslipidemia",     label |-> "L_dyslipidemia"],
    [id |-> "sibling_diabetes", label |-> "L_sibling_diabetes"],
    [id |-> "parent_diabetes",  label |-> "L_parent_diabetes"],
    [id |-> "no_exercise",      label |-> "L_no_exercise"],
    [id |-> "sweets_frequency", label |-> "L_sweets_frequency"],
    [id |-> "drink_type",       label |-> "L_drink_type"],
    [id |-> "alcohol",          label |-> "L_alcohol"],
    [id |-> "alcohol_detail",   label |-> "L_alcohol_detail"],
    [id |-> "tooth_extraction", label |-> "L_tooth_extraction"],
    [id |-> "comment",          label |-> "L_comment"] >>

CatalogIds == {QUESTIONS[i].id : i \in 1..Len(QUESTIONS)}

----------------------------------------------------------------------------
(* CSV export: the string building of downloadCSV *)

\* String.prototype.includes for a one-character needle
Includes(s, c) == \E i \in 1..Len(s) : s[i] = c

\* value.replace(/"/g, '""')
RECURSIVE ReplaceQuotes(_)
ReplaceQuotes(s) ==
    IF s = EmptyText THEN EmptyText
    ELSE (IF Head(s) = DQ THEN <<DQ, DQ>> ELSE <<Head(s)>>) \o ReplaceQuotes(Tail(s))

\* Array.prototype.join over pieces of text
RECURSIVE Join(_, _)
Join(parts, sep) ==
    IF parts = <<>> THEN EmptyText
    ELSE IF Len(parts) = 1 THEN parts[1]
    ELSE parts[1] \o <<sep>> \o Join(Tail(parts), sep)

\* const value = r.data[q.id] || ''
CellValue(data, id) ==
    IF id \in DOMAIN data /\ Truthy(data[id]) THEN data[id] ELSE Str(EmptyText)

\* value.includes is a function only on a string: anything else raises TypeError
CellThrows(data, id) == CellValue(data, id).t # "string"

\* a variant that quotes like RFC 4180, on a double quote as well
EscapeCellRfc(s) ==
    IF Includes(s, COMMA) \/ Includes(s, NL) \/ Includes(s, DQ)
    THEN <<DQ>> \o ReplaceQuotes(s) \o <<DQ>>
    ELSE s

EscapeCell(s) ==
    IF Includes(s, COMMA) \/ Includes(s, NL)
    THEN <<DQ>> \o ReplaceQuotes(s) \o <<DQ>>
    ELSE s

CsvHeaders == [i \in 1..Len(QUESTIONS) |-> <<QUESTIONS[i].label>>]

\* a variant that walks the keys of the record instead of the catalog
CsvRowOfKeys(data) ==
    LET present == SelectSeq(QUESTIONS, LAMBDA q : q.id \in DOMAIN data)
    IN  [i \in 1..Len(present) |-> EscapeCell(CellValue(data, present[i].id).s)]

CsvRow(data) == [i \in 1..Len(QUESTIONS) |-> EscapeCell(CellValue(data, QUESTIONS[i].id).s)]

\* the rows of the file, each a sequence of cells: the header, then one per record
CsvRows(rs, h) == <<CsvHeaders>> \o [i \in 1..Len(rs) |-> CsvRow(h[rs[i].data])]

CsvContent(rows) == Join([i \in 1..Len(rows) |-> Join(rows[i], COMMA)], NL)

CsvThrows(rs, h) ==
    \E i \in 1..Len(rs) : \E j \in 1..Len(QUESTIONS) :
        CellThrows(h[rs[i].data], QUESTIONS[j].id)

NoDownload == [made |-> FALSE, rows |-> <<>>, content |-> EmptyText]

----------------------------------------------------------------------------
(* Files, bitmaps and asynchronous work *)

NoFile        == [name |-> "none", pdf |-> FALSE, pages |-> 0]
ImageFile(n)  == [name |-> n, pdf |-> FALSE, pages |-> 0]
PdfDoc(n, p)  == [name |-> n, pdf |-> TRUE, pages |-> p]

\* isPdf(file): the MIME type or the .pdf extension
isPdf(f) == f.pdf

NullSrc       == [k |-> "null", f |-> NoFile, p |-> 0]
FileObj(f)    == [k |-> "file", f |-> f, p |-> 0]
\* the data URL of an image file (page 0) or of a rasterized PDF page
DataUrl(f, p) == [k |-> "url", f |-> f, p |-> p]

\* One pending promise.  orphan: the ImagePreview instance that started it has
\* been unmounted, so its state setters no longer have any effect.
Task(type, f, p, mode, src) ==
    [type |-> type, file |-> f, page |-> p, orphan |-> FALSE, mode |-> mode, src |-> src,
     prior |-> <<>>, text |-> <<>>]

Remove(seq, i) == [j \in 1..(Len(seq) - 1) |-> IF j < i THEN seq[j] ELSE seq[j + 1]]

Pending(type) == {i \in 1..Len(tasks) : tasks[i].type = type}

Rasterizing == Pending("pdfCount") \cup Pending("pdfRender") \cup Pending("changePage")

Done(op, arg, notice, threw) == [op |-> op, arg |-> arg, notice |-> notice, threw |-> threw]

----------------------------------------------------------------------------
(* The heap of objects *)

\* The references the program holds, in a fixed order: the form, then the records
Refs(fd, rs) == <<fd>> \o [i \in 1..Len(rs) |-> rs[i].data]

\* A fresh object is any address not in use
Fresh(h) == CHOOSE o \in 0..Cardinality(DOMAIN h) : o \notin DOMAIN h

\* Addresses are not observable, only identity is: objects are renumbered by
\* first reference and those no longer referred to are dropped
Address(refs, o) ==
    LET first == CHOOSE j \in 1..Len(refs) : refs[j] = o /\ \A k \in 1..(j - 1) : refs[k] # o
    IN  Cardinality({refs[k] : k \in 1..(first - 1)})

Canonical(h, fd, rs) ==
    LET refs == Refs(fd, rs)
        used == {refs[j] : j \in 1..Len(refs)}
    IN  [fd   |-> Address(refs, fd),
         rs   |-> [i \in 1..Len(rs) |-> [rs[i] EXCEPT !.data = Address(refs, rs[i].data)]],
         heap |-> [a \in {Address(refs, o) : o \in used} |->
                      h[CHOOSE o \in used : Address(refs, o) = a]]]

\* the store after an action: the form object, the records and the heap
SetStore(h, fd, rs) ==
    LET c == Canonical(h, fd, rs)
    IN  /\ formData' = c.fd
        /\ results' = c.rs
        /\ heap' = c.heap

----------------------------------------------------------------------------
(* Initial state: the components as constructed.  The mount effect of App   *)
(* has read the API key that an earlier session may have left in storage.   *)

NoEntry == [present |-> FALSE, value |-> EmptyText]
Entry(k) == [present |-> TRUE, value |-> k]

StoredKey == <<"K">>

PreviewInit ==
    /\ currentPage = 1
    /\ totalPages = 1
    /\ isPdfFile = FALSE
    /\ pdfFile = NoFile
    /\ isLoadingPage = FALSE

InitWith(st) ==
    /\ image = NullSrc
    /\ imagePreview = NullSrc
    /\ ocrText = "empty"
    /\ isProcessing = FALSE
    /\ formData = 0
    /\ heap = (0 :> EmptyObj)
    /\ results = <<>>
    /\ activeTab = "input"
    /\ fileType = "image"
    /\ storage = st
    /\ apiKey = (IF st.present /\ st.value # EmptyText THEN st.value ELSE EmptyText)
    /\ showSettings = FALSE
    /\ ocrMode = "structured"
    /\ inputKey = EmptyText
    /\ PreviewInit
    /\ tasks = <<>>
    /\ now = 0
    /\ download = NoDownload
    /\ last = Done("mount", 0, "none", FALSE)

Init == \E st \in {NoEntry, Entry(StoredKey)} : InitWith(st)

----------------------------------------------------------------------------
(* Form State and Record Store (App.jsx) *)

\* handleInputChange: setFormData(prev => ({ ...prev, [id]: value }))
HandleInputChange(id, value) ==
    /\ activeTab = "input"
    /\ LET o == Fresh(heap)
           h == heap @@ (o :> Put(heap[formData], id, value))
       IN  SetStore(h, o, results)
    /\ last' = Done("handleInputChange", 0, "none", FALSE)
    /\ UNCHANGED <<appVars, keyVars, previewVars, tasks, now, download>>

\* a variant of clearForm that does not ask
ClearFormUnasked(confirmed) ==
    /\ activeTab = "input"
    /\ LET o == Fresh(heap)
           h == heap @@ (o :> EmptyObj)
       IN  /\ SetStore(h, o, results)
           /\ ocrText' = "empty"
           /\ image' = NullSrc
           /\ imagePreview' = NullSrc
           /\ fileType' = "image"
    /\ last' = Done("clearForm", IF confirmed THEN 1 ELSE 0, "none", FALSE)
    /\ UNCHANGED <<isProcessing, activeTab, ocrMode, keyVars, previewVars, tasks, now,
                   download>>

\* clearForm: nothing happens unless window.confirm returns true
ClearForm(confirmed) ==
    /\ activeTab = "input"
    /\ IF confirmed
       THEN LET o == Fresh(heap)
                h == heap @@ (o :> EmptyObj)
            IN  /\ SetStore(h, o, results)
                /\ ocrText' = "empty"
                /\ image' = NullSrc
                /\ imagePreview' = NullSrc
                /\ fileType' = "image"
       ELSE UNCHANGED <<storeVars, ocrText, image, imagePreview, fileType>>
    /\ last' = Done("clearForm", IF confirmed THEN 1 ELSE 0, "none", FALSE)
    /\ UNCHANGED <<isProcessing, activeTab, ocrMode, keyVars, previewVars, tasks, now,
                   download>>

\* a variant of addResult that stores the form object itself, not a copy
AddResultByReference ==
    /\ activeTab = "input"
    /\ Len(results) < MaxRecords
    /\ SetStore(heap, formData,
                Append(results, [id |-> now, timestamp |-> now, data |-> formData]))
    /\ last' = Done("addResult", 0, "added", FALSE)
    /\ UNCHANGED <<appVars, keyVars, previewVars, tasks, now, download>>

\* a variant of addResult that puts the new record first
AddResultFirst ==
    /\ activeTab = "input"
    /\ Len(results) < MaxRecords
    /\ LET o == Fresh(heap)
           h == heap @@ (o :> heap[formData])
           newResult == [id |-> now, timestamp |-> now, data |-> o]
       IN  SetStore(h, formData, <<newResult>> \o results)
    /\ last' = Done("addResult", 0, "added", FALSE)
    /\ UNCHANGED <<appVars, keyVars, previewVars, tasks, now, download>>

\* addResult: { id: Date.now(), timestamp: ..., data: { ...formData } } is appended
AddResult ==
    /\ activeTab = "input"
    /\ Len(results) < MaxRecords
    /\ LET o == Fresh(heap)
           h == heap @@ (o :> heap[formData])
           newResult == [id |-> now, timestamp |-> now, data |-> o]
       IN  SetStore(h, formData, Append(results, newResult))
    /\ last' = Done("addResult", 0, "added", FALSE)
    /\ UNCHANGED <<appVars, keyVars, previewVars, tasks, now, download>>

\* onDeleteResult: setResults(prev => prev.filter(r => r.id !== id))
onDeleteResult(rs, id) == SelectSeq(rs, LAMBDA r : r.id # id)

\* the delete button of row i of ResultDisplay, behind window.confirm
DeleteClick(i, confirmed) ==
    /\ activeTab = "results"
    /\ i \in 1..Len(results)
    /\ IF confirmed
       THEN SetStore(heap, formData, onDeleteResult(results, results[i].id))
       ELSE UNCHANGED storeVars
    /\ last' = Done("onDeleteResult", IF confirmed THEN 1 ELSE 0, "none", FALSE)
    /\ UNCHANGED <<appVars, keyVars, previewVars, tasks, now, download>>

\* a variant of downloadCSV without the check for an empty store
downloadCSVOfAnyStore ==
    /\ IF CsvThrows(results, heap)
       THEN /\ last' = Done("downloadCSV", 0, "none", TRUE)
            /\ UNCHANGED download
       ELSE /\ download' = [made |-> TRUE,
                            rows |-> CsvRows(results, heap),
                            content |-> <<"BOM">> \o CsvContent(CsvRows(results, heap))]
            /\ last' = Done("downloadCSV", 0, "none", FALSE)
    /\ UNCHANGED <<appVars, keyVars, previewVars, storeVars, tasks, now>>

\* downloadCSV
downloadCSV ==
    /\ IF Len(results) = 0
       THEN /\ last' = Done("downloadCSV", 0, "nothingToSave", FALSE)
            /\ UNCHANGED download
       ELSE IF CsvThrows(results, heap)
       THEN /\ last' = Done("downloadCSV", 0, "none", TRUE)
            /\ UNCHANGED download
       ELSE /\ download' = [made |-> TRUE,
                            rows |-> CsvRows(results, heap),
                            content |-> <<"BOM">> \o CsvContent(CsvRows(results, heap))]
            /\ last' = Done("downloadCSV", 0, "none", FALSE)
    /\ UNCHANGED <<appVars, keyVars, previewVars, storeVars, tasks, now>>

\* the download button exists only in the results view of a non-empty store
DownloadClick ==
    /\ activeTab = "results"
    /\ Len(results) > 0
    /\ downloadCSV

\* the tab buttons; leaving the input tab unmounts ImagePreview: its state is
\* lost and the promises it started can no longer set it
SetActiveTab(t) ==
    /\ activeTab' = t
    /\ IF activeTab = "input" /\ t = "results"
       THEN /\ currentPage' = 1
            /\ totalPages' = 1
            /\ isPdfFile' = FALSE
            /\ pdfFile' = NoFile
            /\ isLoadingPage' = FALSE
            /\ tasks' = [i \in 1..Len(tasks) |-> [tasks[i] EXCEPT !.orphan = TRUE]]
       ELSE UNCHANGED <<previewVars, tasks>>
    /\ last' = Done("setActiveTab", 0, "none", FALSE)
    /\ UNCHANGED <<image, imagePreview, ocrText, isProcessing, fileType, ocrMode,
                   keyVars, storeVars, now, download>>

\* time passes
Tick ==
    /\ now < MaxClock
    /\ now' = now + 1
    /\ UNCHANGED <<appVars, keyVars, previewVars, storeVars, tasks, download, last>>

----------------------------------------------------------------------------
(* Source acquisition (ImagePreview.jsx, handleImageSelect, handlePdfLoad) *)

\* the source document as a handler finds it
SourceDocument ==
    [isPdfFile |-> isPdfFile, pdfFile |-> pdfFile, totalPages |-> totalPages,
     currentPage |-> currentPage, imagePreview |-> imagePreview]

\* handleFileSelect with a chosen file; prior is kept with the load it starts
\* and is read by no handler
HandleFileSelectFrom(f, prior) ==
    /\ activeTab = "input"
    /\ Len(tasks) < MaxTasks
    /\ IF isPdf(f)
       THEN /\ isPdfFile' = TRUE
            /\ pdfFile' = f
            /\ isLoadingPage' = TRUE
            /\ tasks' = Append(tasks, [Task("pdfCount", f, 0, "none", NullSrc)
                                          EXCEPT !.prior = prior])
            /\ UNCHANGED <<totalPages, currentPage, image, fileType>>
       ELSE /\ isPdfFile' = FALSE
            /\ pdfFile' = NoFile
            /\ totalPages' = 1
            /\ currentPage' = 1
            \* onImageSelect(e): handleImageSelect of App
            /\ image' = FileObj(f)
            /\ fileType' = "image"
            /\ tasks' = Append(tasks, Task("reader", f, 0, "none", NullSrc))
            /\ UNCHANGED isLoadingPage
    /\ last' = Done("handleFileSelect", 0, "none", FALSE)
    /\ UNCHANGED <<imagePreview, ocrText, isProcessing, activeTab, ocrMode, keyVars,
                   storeVars, now, download>>

HandleFileSelect(f) == HandleFileSelectFrom(f, <<>>)

\* handleFileSelect when the file dialog was cancelled: if (!file) return
FileSelectCancel ==
    /\ activeTab = "input"
    /\ last' = Done("handleFileSelect", 0, "none", FALSE)
    /\ UNCHANGED <<appVars, keyVars, previewVars, storeVars, tasks, now, download>>

\* reader.onloadend of handleImageSelect: reader.result is null after a failed read
ReaderDone(i, ok) ==
    /\ i \in Pending("reader")
    /\ imagePreview' = (IF ok THEN DataUrl(tasks[i].file, 0) ELSE NullSrc)
    /\ tasks' = Remove(tasks, i)
    /\ last' = Done("reader.onloadend", 0, "none", FALSE)
    /\ UNCHANGED <<image, ocrText, isProcessing, activeTab, fileType, ocrMode, keyVars,
                   previewVars, storeVars, now, download>>

\* handlePdfLoad: setImagePreview, setImage, setFileType('pdf')
handlePdfLoad(url) ==
    /\ imagePreview' = url
    /\ image' = url
    /\ fileType' = "pdf"

\* handleFileSelect resumes after await getPdfPageCount(file)
PdfCountDone(i, ok) ==
    /\ i \in Pending("pdfCount")
    /\ IF ok
       THEN /\ IF tasks[i].orphan
               THEN UNCHANGED <<totalPages, currentPage>>
               ELSE /\ totalPages' = tasks[i].file.pages
                    /\ currentPage' = 1
            /\ tasks' = [tasks EXCEPT ![i].type = "pdfRender", ![i].page = 1]
            /\ last' = Done("getPdfPageCount", 0, "none", FALSE)
            /\ UNCHANGED isLoadingPage
       ELSE /\ isLoadingPage' = (IF tasks[i].orphan THEN isLoadingPage ELSE FALSE)
            /\ tasks' = Remove(tasks, i)
            /\ last' = Done("getPdfPageCount", 0, "pdfLoadFailed", FALSE)
            /\ UNCHANGED <<totalPages, currentPage>>
    /\ UNCHANGED <<appVars, keyVars, isPdfFile, pdfFile, storeVars, now, download>>

\* handleFileSelect resumes after await pdfToImage(file, 1, 2.0)
PdfRenderDone(i, ok) ==
    /\ i \in Pending("pdfRender")
    /\ IF ok
       THEN /\ handlePdfLoad(DataUrl(tasks[i].file, 1))
            /\ last' = Done("pdfToImage", 1, "none", FALSE)
       ELSE /\ UNCHANGED <<imagePreview, image, fileType>>
            /\ last' = Done("pdfToImage", 1, "pdfLoadFailed", FALSE)
    /\ isLoadingPage' = (IF tasks[i].orphan THEN isLoadingPage ELSE FALSE)
    /\ tasks' = Remove(tasks, i)
    /\ UNCHANGED <<ocrText, isProcessing, activeTab, ocrMode, keyVars, currentPage,
                   totalPages, isPdfFile, pdfFile, storeVars, now, download>>

\* a variant of changePage whose guard forgets the upper bound
changePageNoUpper(newPage) ==
    /\ IF newPage < 1 \/ pdfFile = NoFile
       THEN UNCHANGED <<isLoadingPage, tasks>>
       ELSE /\ Len(tasks) < MaxTasks
            /\ isLoadingPage' = TRUE
            /\ tasks' = Append(tasks, Task("changePage", pdfFile, newPage, "none", NullSrc))
    /\ last' = Done("changePage", newPage, "none", FALSE)
    /\ UNCHANGED <<appVars, keyVars, currentPage, totalPages, isPdfFile, pdfFile,
                   storeVars, now, download>>

\* changePage(newPage)
changePage(newPage) ==
    /\ IF newPage < 1 \/ newPage > totalPages \/ pdfFile = NoFile
       THEN UNCHANGED <<isLoadingPage, tasks>>
       ELSE /\ Len(tasks) < MaxTasks
            /\ isLoadingPage' = TRUE
            /\ tasks' = Append(tasks, Task("changePage", pdfFile, newPage, "none", NullSrc))
    /\ last' = Done("changePage", newPage, "none", FALSE)
    /\ UNCHANGED <<appVars, keyVars, currentPage, totalPages, isPdfFile, pdfFile,
                   storeVars, now, download>>

\* the navigation bar is rendered only for a PDF of more than one page
NavShown == activeTab = "input" /\ isPdfFile /\ totalPages > 1

PrevDisabled == currentPage <= 1 \/ isLoadingPage
NextDisabled == currentPage >= totalPages \/ isLoadingPage

PrevClick == NavShown /\ ~PrevDisabled /\ changePage(currentPage - 1)
NextClick == NavShown /\ ~NextDisabled /\ changePage(currentPage + 1)

\* changePage resumes after await pdfToImage(pdfFile, newPage, 2.0); a page the
\* document does not have is rejected by getPage
ChangePageDone(i, ok) ==
    /\ i \in Pending("changePage")
    /\ ok => tasks[i].page <= tasks[i].file.pages
    /\ IF ok
       THEN /\ currentPage' = (IF tasks[i].orphan THEN currentPage ELSE tasks[i].page)
            /\ handlePdfLoad(DataUrl(tasks[i].file, tasks[i].page))
       ELSE UNCHANGED <<currentPage, imagePreview, image, fileType>>
    /\ isLoadingPage' = (IF tasks[i].orphan THEN isLoadingPage ELSE FALSE)
    /\ tasks' = Remove(tasks, i)
    /\ last' = Done(IF ok THEN "pdfToImage" ELSE "changePage.catch", tasks[i].page, "none",
                    FALSE)
    /\ UNCHANGED <<ocrText, isProcessing, activeTab, ocrMode, keyVars, totalPages,
                   isPdfFile, pdfFile, storeVars, now, download>>

----------------------------------------------------------------------------
(* Recognition (runOCR of App.jsx, runGeminiOCR and runGeminiOCRStructured) *)

\* the dialog is mounted when showSettings turns true: useState(apiKey || '')
OpenDialog ==
    /\ showSettings' = TRUE
    /\ inputKey' = (IF showSettings THEN inputKey ELSE apiKey)

\* a variant of the button that is not disabled while a request is pending
OcrDisabledIgnoringProcessing == imagePreview = NullSrc \/ isLoadingPage

\* disabled={!imagePreview || isProcessing || isLoadingPage}
OcrDisabled == imagePreview = NullSrc \/ isProcessing \/ isLoadingPage

\* a variant of runOCR that does not check the API key
runOCRWithoutKeyCheck ==
    /\ IF imagePreview = NullSrc
       THEN /\ last' = Done("runOCR", 0, "selectFileFirst", FALSE)
            /\ UNCHANGED <<isProcessing, ocrText, tasks, showSettings, inputKey>>
       ELSE /\ Len(tasks) < MaxTasks
            /\ isProcessing' = TRUE
            /\ ocrText' = "reading"
            /\ tasks' = Append(tasks, Task("ocr", NoFile, 0, ocrMode,
                                 IF fileType = "pdf" THEN imagePreview ELSE image))
            /\ last' = Done("runOCR", 0, "none", FALSE)
            /\ UNCHANGED <<showSettings, inputKey>>
    /\ UNCHANGED <<image, imagePreview, activeTab, fileType, ocrMode, apiKey, storage,
                   previewVars, storeVars, now, download>>

\* runOCR up to its first await
runOCR ==
    /\ IF imagePreview = NullSrc
       THEN /\ last' = Done("runOCR", 0, "selectFileFirst", FALSE)
            /\ UNCHANGED <<isProcessing, ocrText, tasks, showSettings, inputKey>>
       ELSE IF apiKey = EmptyText
       THEN /\ last' = Done("runOCR", 0, "setApiKey", FALSE)
            /\ OpenDialog
            /\ UNCHANGED <<isProcessing, ocrText, tasks>>
       ELSE /\ Len(tasks) < MaxTasks
            /\ isProcessing' = TRUE
            /\ ocrText' = "reading"
            /\ tasks' = Append(tasks, Task("ocr", NoFile, 0, ocrMode,
                                 IF fileType = "pdf" THEN imagePreview ELSE image))
            /\ last' = Done("runOCR", 0, "none", FALSE)
            /\ UNCHANGED <<showSettings, inputKey>>
    /\ UNCHANGED <<image, imagePreview, activeTab, fileType, ocrMode, apiKey, storage,
                   previewVars, storeVars, now, download>>

\* the OCR button of ImagePreview
OcrClick == activeTab = "input" /\ ~OcrDisabled /\ runOCR

\* runOCR called as a function, whatever the bitmap: the button of ImagePreview
\* never calls it without one
OcrInvoke == activeTab = "input" /\ ~isProcessing /\ runOCR

\* imageToBase64 accepts a data URL or a File and throws on anything else
Encodable(src) == src.k \in {"url", "file"}

\* a variant that merges the answer into the form field by field
OcrDoneObjectMerging(i, obj) ==
    /\ i \in Pending("ocr")
    /\ tasks[i].mode = "structured"
    /\ Encodable(tasks[i].src)
    /\ LET o == Fresh(heap)
           h == heap @@ (o :> (obj @@ heap[formData]))
       IN  SetStore(h, o, results)
    /\ ocrText' = "filled"
    /\ isProcessing' = FALSE
    /\ tasks' = Remove(tasks, i)
    /\ last' = Done("runOCR.object", 0, "none", FALSE)
    /\ UNCHANGED <<image, imagePreview, activeTab, fileType, ocrMode, keyVars,
                   previewVars, now, download>>

\* structured mode: JSON.parse returned an object; setFormData(structuredData)
OcrDoneObject(i, obj) ==
    /\ i \in Pending("ocr")
    /\ tasks[i].mode = "structured"
    /\ Encodable(tasks[i].src)
    /\ LET o == Fresh(heap)
           h == heap @@ (o :> obj)
       IN  SetStore(h, o, results)
    /\ ocrText' = "filled"
    /\ isProcessing' = FALSE
    /\ tasks' = Remove(tasks, i)
    /\ last' = Done("runOCR.object", 0, "none", FALSE)
    /\ UNCHANGED <<image, imagePreview, activeTab, fileType, ocrMode, keyVars,
                   previewVars, now, download>>

\* a variant that treats the null result as an empty answer and fills the form
OcrDoneNullAsEmptyAnswer(i) ==
    /\ i \in Pending("ocr")
    /\ tasks[i].mode = "structured"
    /\ Encodable(tasks[i].src)
    /\ LET o == Fresh(heap)
           h == heap @@ (o :> EmptyObj)
       IN  SetStore(h, o, results)
    /\ ocrText' = "filled"
    /\ isProcessing' = FALSE
    /\ tasks' = Remove(tasks, i)
    /\ last' = Done("runOCR.null", 0, "none", FALSE)
    /\ UNCHANGED <<image, imagePreview, activeTab, fileType, ocrMode, keyVars,
                   previewVars, now, download>>

\* structured mode: no {...} in the answer, or it does not parse: null
OcrDoneNull(i) ==
    /\ i \in Pending("ocr")
    /\ tasks[i].mode = "structured"
    /\ Encodable(tasks[i].src)
    /\ ocrText' = "extractionFailed"
    /\ isProcessing' = FALSE
    /\ tasks' = Remove(tasks, i)
    /\ last' = Done("runOCR.null", 0, "none", FALSE)
    /\ UNCHANGED <<image, imagePreview, activeTab, fileType, ocrMode, keyVars,
                   previewVars, storeVars, now, download>>

\* text mode: setOcrText(text)
OcrDoneText(i) ==
    /\ i \in Pending("ocr")
    /\ tasks[i].mode = "text"
    /\ Encodable(tasks[i].src)
    /\ ocrText' = "text"
    /\ isProcessing' = FALSE
    /\ tasks' = Remove(tasks, i)
    /\ last' = Done("runOCR.text", 0, "none", FALSE)
    /\ UNCHANGED <<image, imagePreview, activeTab, fileType, ocrMode, keyVars,
                   previewVars, storeVars, now, download>>

\* what the catch block can be handed: an Error whose message names the API key,
\* an Error with another message, or the ProgressEvent of a failed FileReader,
\* which has no message
ErrorKinds(src) ==
    IF ~Encodable(src) THEN {"other"}
    ELSE IF src.k = "file" THEN {"apiKey", "other", "noMessage"}
    ELSE {"apiKey", "other"}

\* a variant whose last statement is not in a finally block: the TypeError of
\* the catch block leaves before it
OcrDoneErrorWithoutFinally(i, kind) ==
    /\ i \in Pending("ocr")
    /\ kind \in ErrorKinds(tasks[i].src)
    /\ ocrText' = "error"
    /\ IF kind = "apiKey"
       THEN /\ OpenDialog
            /\ last' = Done("runOCR.catch", kind, "invalidApiKey", FALSE)
       ELSE /\ UNCHANGED <<showSettings, inputKey>>
            /\ last' = Done("runOCR.catch", kind, "none", kind = "noMessage")
    /\ isProcessing' = (IF kind = "noMessage" THEN isProcessing ELSE FALSE)
    /\ tasks' = Remove(tasks, i)
    /\ UNCHANGED <<image, imagePreview, activeTab, fileType, ocrMode, apiKey, storage,
                   previewVars, storeVars, now, download>>

\* catch and finally of runOCR; error.message.includes raises TypeError when
\* there is no message, after setOcrText and before the finally block
OcrDoneError(i, kind) ==
    /\ i \in Pending("ocr")
    /\ kind \in ErrorKinds(tasks[i].src)
    /\ ocrText' = "error"
    /\ IF kind = "apiKey"
       THEN /\ OpenDialog
            /\ last' = Done("runOCR.catch", kind, "invalidApiKey", FALSE)
       ELSE /\ UNCHANGED <<showSettings, inputKey>>
            /\ last' = Done("runOCR.catch", kind, "none", kind = "noMessage")
    /\ isProcessing' = FALSE
    /\ tasks' = Remove(tasks, i)
    /\ UNCHANGED <<image, imagePreview, activeTab, fileType, ocrMode, apiKey, storage,
                   previewVars, storeVars, now, download>>

\* JSON.parse on the texts of this model: objects, strings without escapes,
\* unsigned integers and the three literals, with blanks between the tokens.
\* The result is [ok, p, v, m]: success, the position after the value, the
\* value, and for an object its mapping.
JsonFail == [ok |-> FALSE, p |-> 0, v |-> JNull, m |-> EmptyObj]

JsonOk(p, v, m) == [ok |-> TRUE, p |-> p, v |-> v, m |-> m]

Digits == {"0", "1", "2", "3", "4", "5", "6", "7", "8", "9"}

RECURSIVE SkipWs(_, _)
SkipWs(s, p) == IF p <= Len(s) /\ s[p] \in {" ", NL} THEN SkipWs(s, p + 1) ELSE p

\* the closing quote of the string that opens at p, or 0
StringEnd(s, p) ==
    IF \E q \in (p + 1)..Len(s) : s[q] = DQ
    THEN CHOOSE q \in (p + 1)..Len(s) : s[q] = DQ /\ \A r \in (p + 1)..(q - 1) : s[r] # DQ
    ELSE 0

RECURSIVE DigitsEnd(_, _)
DigitsEnd(s, p) == IF p <= Len(s) /\ s[p] \in Digits THEN DigitsEnd(s, p + 1) ELSE p

StartsWith(s, p, w) == p + Len(w) - 1 <= Len(s) /\ SubSeq(s, p, p + Len(w) - 1) = w

\* a property name of the model is one character long
KeyOf(cs) == IF Len(cs) = 1 THEN cs[1] ELSE "_"

RECURSIVE ParseValue(_, _)
RECURSIVE ParseMembers(_, _, _)

ParseString(s, p) ==
    LET e == StringEnd(s, p)
    IN  IF e = 0 \/ Includes(SubSeq(s, p + 1, e - 1), NL) THEN JsonFail
        ELSE JsonOk(e + 1, Str(SubSeq(s, p + 1, e - 1)), EmptyObj)

ParseNumber(s, p) ==
    LET e == DigitsEnd(s, p)
    IN  IF s[p] = "0" /\ e > p + 1 THEN JsonFail
        ELSE JsonOk(e, Num(SubSeq(s, p, e - 1)), EmptyObj)

ParseObject(s, p) ==
    LET q == SkipWs(s, p + 1)
    IN  IF q <= Len(s) /\ s[q] = "}" THEN JsonOk(q + 1, JObject, EmptyObj)
        ELSE ParseMembers(s, q, EmptyObj)

ParseMembers(s, p, m) ==
    IF p > Len(s) \/ s[p] # DQ THEN JsonFail
    ELSE LET k == ParseString(s, p)
             c == SkipWs(s, k.p)
         IN  IF ~k.ok \/ c > Len(s) \/ s[c] # ":" THEN JsonFail
             ELSE LET v == ParseValue(s, SkipWs(s, c + 1))
                      d == SkipWs(s, v.p)
                      m2 == Put(m, KeyOf(k.v.s), v.v)
                  IN  IF ~v.ok \/ d > Len(s) THEN JsonFail
                      ELSE IF s[d] = "," THEN ParseMembers(s, SkipWs(s, d + 1), m2)
                      ELSE IF s[d] = "}" THEN JsonOk(d + 1, JObject, m2)
                      ELSE JsonFail

ParseValue(s, p) ==
    IF p > Len(s) THEN JsonFail
    ELSE IF s[p] = "{" THEN ParseObject(s, p)
    ELSE IF s[p] = DQ THEN ParseString(s, p)
    ELSE IF s[p] \in Digits THEN ParseNumber(s, p)
    ELSE IF StartsWith(s, p, JNull.s) THEN JsonOk(p + 4, JNull, EmptyObj)
    ELSE IF StartsWith(s, p, JTrue.s) THEN JsonOk(p + 4, JTrue, EmptyObj)
    ELSE IF StartsWith(s, p, JFalse.s) THEN JsonOk(p + 5, JFalse, EmptyObj)
    ELSE JsonFail

\* JSON.parse(s): one value and nothing but blanks around it
JsonParse(s) ==
    LET r == ParseValue(s, SkipWs(s, 1))
    IN  IF r.ok /\ SkipWs(s, r.p) = Len(s) + 1 THEN r ELSE JsonFail

NoMatch == [found |-> FALSE, s |-> EmptyText]

\* text.match(/\{[\s\S]*\}/): from the first { to the last } of the text
MatchBraces(text) ==
    LET opens == {i \in 1..Len(text) : text[i] = "{"}
        closes == {i \in 1..Len(text) : text[i] = "}"}
    IN  IF opens = {} \/ closes = {} THEN NoMatch
        ELSE LET a == CHOOSE i \in opens : \A j \in opens : i <= j
                 b == CHOOSE i \in closes : \A j \in closes : j <= i
             IN  IF a < b THEN [found |-> TRUE, s |-> SubSeq(text, a, b)] ELSE NoMatch

NullResult == [null |-> TRUE, obj |-> EmptyObj]

\* runGeminiOCRStructured from the response text on
runGeminiOCRStructured(text) ==
    LET jsonMatch == MatchBraces(text)
    IN  IF jsonMatch.found
        THEN LET r == JsonParse(jsonMatch.s)
             IN  IF r.ok THEN [null |-> FALSE, obj |-> r.m] ELSE NullResult
        ELSE NullResult

\* structured mode, from the response text that the request brings back
OcrDoneResponse(i) ==
    /\ i \in Pending("ocr")
    /\ LET structuredData == runGeminiOCRStructured(tasks[i].text)
       IN  IF structuredData.null THEN OcrDoneNull(i)
           ELSE OcrDoneObject(i, structuredData.obj)

\* the mode radio buttons
SetOcrMode(m) ==
    /\ activeTab = "input"
    /\ ocrMode' = m
    /\ last' = Done("setOcrMode", 0, "none", FALSE)
    /\ UNCHANGED <<image, imagePreview, ocrText, isProcessing, activeTab, fileType,
                   keyVars, previewVars, storeVars, tasks, now, download>>

\* typing into the OCR text area
EditOcrText ==
    /\ activeTab = "input"
    /\ ocrText' = "typed"
    /\ last' = Done("setOcrText", 0, "none", FALSE)
    /\ UNCHANGED <<image, imagePreview, isProcessing, activeTab, fileType, ocrMode,
                   keyVars, previewVars, storeVars, tasks, now, download>>

----------------------------------------------------------------------------
(* API key settings (ApiKeySettings, saveApiKey) *)

RECURSIVE TrimLeft(_)
TrimLeft(s) == IF s # EmptyText /\ Head(s) = " " THEN TrimLeft(Tail(s)) ELSE s

RECURSIVE TrimRight(_)
TrimRight(s) ==
    IF s # EmptyText /\ s[Len(s)] = " " THEN TrimRight(SubSeq(s, 1, Len(s) - 1)) ELSE s

Trim(s) == TrimRight(TrimLeft(s))

\* the settings button of the header and of the missing-key warning
OpenSettings ==
    /\ OpenDialog
    /\ last' = Done("openSettings", 0, "none", FALSE)
    /\ UNCHANGED <<appVars, apiKey, storage, previewVars, storeVars, tasks, now, download>>

\* onClose: the cancel button or a click on the overlay
CloseSettings ==
    /\ showSettings
    /\ showSettings' = FALSE
    /\ inputKey' = EmptyText
    /\ last' = Done("onClose", 0, "none", FALSE)
    /\ UNCHANGED <<appVars, apiKey, storage, previewVars, storeVars, tasks, now, download>>

\* typing into the key field
TypeKey(k) ==
    /\ showSettings
    /\ inputKey' = k
    /\ last' = Done("setInputKey", 0, "none", FALSE)
    /\ UNCHANGED <<appVars, apiKey, storage, showSettings, previewVars, storeVars, tasks,
                   now, download>>

\* saveApiKey(key): setApiKey, localStorage.setItem, setShowSettings(false)
saveApiKey(key) ==
    /\ apiKey' = key
    /\ storage' = Entry(key)
    /\ showSettings' = FALSE
    /\ inputKey' = EmptyText

\* handleSave
HandleSave ==
    /\ showSettings
    /\ IF Trim(inputKey) = EmptyText
       THEN /\ last' = Done("handleSave", 0, "enterApiKey", FALSE)
            /\ UNCHANGED keyVars
       ELSE /\ saveApiKey(Trim(inputKey))
            /\ last' = Done("handleSave", 0, "none", FALSE)
    /\ UNCHANGED <<appVars, previewVars, storeVars, tasks, now, download>>

\* handleClear: the delete button is rendered only while apiKey is set;
\* setInputKey(''), localStorage.removeItem, then onSave('')
HandleClear(confirmed) ==
    /\ showSettings
    /\ apiKey # EmptyText
    /\ IF confirmed
       THEN saveApiKey(EmptyText)
       ELSE UNCHANGED keyVars
    /\ last' = Done("handleClear", IF confirmed THEN 1 ELSE 0, "none", FALSE)
    /\ UNCHANGED <<appVars, previewVars, storeVars, tasks, now, download>>

----------------------------------------------------------------------------
(* The whole program *)

Files == {ImageFile("photo"), PdfDoc("A", MaxPages), PdfDoc("B", 2)}

EditIds == {"patient_id"}
EditValues == {Str(<<"7">>), Str(EmptyText)}

\* answers of the recognition service, as parsed by JSON.parse
Responses == {
    ("patient_id" :> Str(<<"1">>)) @@ ("gender" :> Str(<<"m">>)),
    ("patient_id" :> Str(<<"1">>)) @@ ("foo" :> Str(<<"b">>)),
    ("height" :> Num(<<"1", "7", "0">>)) }

KeyInputs == {EmptyText, <<" ", "K", " ">>}

UserStep ==
    \/ \E id \in EditIds, v \in EditValues : HandleInputChange(id, v)
    \/ \E c \in BOOLEAN : ClearForm(c)
    \/ AddResult
    \/ \E i \in 1..MaxRecords, c \in BOOLEAN : DeleteClick(i, c)
    \/ DownloadClick
    \/ \E t \in {"input", "results"} : SetActiveTab(t)
    \/ \E f \in Files : HandleFileSelect(f)
    \/ PrevClick
    \/ NextClick
    \/ OcrClick
    \/ \E m \in {"structured", "text"} : SetOcrMode(m)
    \/ EditOcrText
    \/ OpenSettings
    \/ CloseSettings
    \/ \E k \in KeyInputs : TypeKey(k)
    \/ HandleSave
    \/ \E c \in BOOLEAN : HandleClear(c)

Completion ==
    \E i \in 1..MaxTasks :
        \/ \E ok \in BOOLEAN : ReaderDone(i, ok)
        \/ \E ok \in BOOLEAN : PdfCountDone(i, ok)
        \/ \E ok \in BOOLEAN : PdfRenderDone(i, ok)
        \/ \E ok \in BOOLEAN : ChangePageDone(i, ok)
        \/ \E obj \in Responses : OcrDoneObject(i, obj)
        \/ OcrDoneNull(i)
        \/ OcrDoneText(i)
        \/ \E kind \in {"apiKey", "other", "noMessage"} : OcrDoneError(i, kind)

Next == UserStep \/ Completion \/ Tick

Spec == Init /\ [][Next]_vars

----------------------------------------------------------------------------
(* Source acquisition: the handlers that read or write the source document *)
(* or the preview state, under every order of completion                   *)

InitDoc == InitWith(Entry(StoredKey))

NextDoc ==
    \/ \E f \in Files : HandleFileSelect(f)
    \/ PrevClick
    \/ NextClick
    \/ ClearForm(TRUE)
    \/ \E t \in {"input", "results"} : SetActiveTab(t)
    \/ \E i \in 1..MaxTasks :
        \/ ReaderDone(i, TRUE)
        \/ \E ok \in BOOLEAN : PdfCountDone(i, ok)
        \/ \E ok \in BOOLEAN : PdfRenderDone(i, ok)
        \/ \E ok \in BOOLEAN : ChangePageDone(i, ok)

SpecDoc == InitDoc /\ [][NextDoc]_vars

----------------------------------------------------------------------------
(* File selection: selections of images and PDFs and page changes, every   *)
(* load succeeding, under every order of completion                        *)

SelectFiles == {ImageFile("photo"), ImageFile("scan"), PdfDoc("A", MaxPages), PdfDoc("B", 2)}

NextSelect ==
    \/ \E f \in SelectFiles : HandleFileSelect(f)
    \/ PrevClick
    \/ NextClick
    \/ \E i \in 1..MaxTasks :
        \/ ReaderDone(i, TRUE)
        \/ PdfCountDone(i, TRUE)
        \/ PdfRenderDone(i, TRUE)
        \/ ChangePageDone(i, TRUE)

SpecSelect == InitDoc /\ [][NextSelect]_vars

----------------------------------------------------------------------------
(* Loads that may fail: one selection or page change at a time, each load   *)
(* carrying the source document that its selection found                   *)

NextLoad ==
    \/ \E f \in Files : tasks = <<>> /\ HandleFileSelectFrom(f, SourceDocument)
    \/ PrevClick
    \/ NextClick
    \/ \E ok \in BOOLEAN :
        \/ ReaderDone(1, ok)
        \/ PdfCountDone(1, ok)
        \/ PdfRenderDone(1, ok)
        \/ ChangePageDone(1, ok)

SpecLoad == InitDoc /\ [][NextLoad]_vars

----------------------------------------------------------------------------
(* The settings dialog: the key is typed, saved and deleted; an earlier     *)
(* session may have left a key in storage                                   *)

SettingsInputs ==
    {EmptyText, <<" ">>, <<"K">>, <<" ", "K", " ">>, <<"J">>, <<"J", " ">>, <<" ", "L">>,
     <<"K", " ", "J">>}

NextKey ==
    \/ OpenSettings
    \/ CloseSettings
    \/ \E k \in SettingsInputs : TypeKey(k)
    \/ HandleSave
    \/ \E c \in BOOLEAN : HandleClear(c)

SpecKey == Init /\ [][NextKey]_vars

----------------------------------------------------------------------------
(* The export as a function of the record store: the stores are those that *)
(* edits, recognitions and commits at distinct clock readings leave behind *)

CsvKeys == {"patient_id", "comment"}

CsvTexts == {
    EmptyText,
    <<"a">>,
    <<"0">>,
    <<COMMA>>,
    <<NL>>,
    <<DQ>>,
    <<"a", DQ>>,
    <<DQ, COMMA>>,
    <<NL, DQ, DQ>>,
    <<DQ, "a", DQ>>,
    <<"a", COMMA, DQ, "b", DQ>> }

CsvValues == {Str(t) : t \in CsvTexts} \cup {Num(<<"0">>), Num(<<"7">>), JNull, JObject}

CsvData ==
    {EmptyObj}
    \cup {k :> v : k \in CsvKeys, v \in CsvValues}
    \cup {("patient_id" :> Str(<<"a", DQ>>)) @@ ("comment" :> Str(<<DQ, COMMA>>)),
          ("comment" :> Str(<<"a">>)) @@ ("foo" :> Str(<<COMMA>>))}

InitCsv ==
    \E n \in 0..MaxRecords : \E ds \in [1..n -> CsvData] :
        /\ image = NullSrc
        /\ imagePreview = NullSrc
        /\ ocrText = "empty"
        /\ isProcessing = FALSE
        /\ formData = 0
        /\ heap = [a \in 0..n |-> IF a = 0 THEN EmptyObj ELSE ds[a]]
        /\ results = [i \in 1..n |-> [id |-> i, timestamp |-> i, data |-> i]]
        /\ activeTab = "results"
        /\ fileType = "image"
        /\ storage = NoEntry
        /\ apiKey = EmptyText
        /\ showSettings = FALSE
        /\ ocrMode = "structured"
        /\ inputKey = EmptyText
        /\ PreviewInit
        /\ tasks = <<>>
        /\ now = n
        /\ download = NoDownload
        /\ last = Done("addResult", 0, "added", FALSE)

NextCsv == downloadCSV

SpecCsv == InitCsv /\ [][NextCsv]_vars

----------------------------------------------------------------------------
(* Structured recognition as a function of the response text: a request for *)
(* a photo is pending over a form that holds two fields, and its response   *)
(* is a JSON text or not, with or without text around it                    *)

Quoted(c) == <<DQ, c, DQ>>

JsonCores == {
    <<"{">> \o Quoted("a") \o <<":">> \o Quoted("1") \o <<"}">>,
    <<"{">> \o Quoted("a") \o <<":">> \o Quoted("1") \o <<",">>
            \o Quoted("b") \o <<":">> \o Quoted("2") \o <<"}">>,
    <<"{">> \o Quoted("a") \o <<":", "{">> \o Quoted("b") \o <<":">> \o Quoted("1")
            \o <<"}", "}">>,
    <<"{", " ">> \o Quoted("b") \o <<" ", ":", " ", "7", " ", "}">>,
    <<"{">> \o Quoted("b") \o <<":", "n", "u", "l", "l", "}">>,
    <<"{", "}">>,
    <<"{", "a", "}">>,
    <<"{">> \o Quoted("a") \o <<":">>,
    <<"a">> }

JsonPrefixes == {EmptyText, <<"x", " ">>, <<"}", " ">>, <<"{", " ">>}

JsonSuffixes == {EmptyText, <<" ", "x">>, <<" ", "}">>, <<" ", "{", "}">>, <<NL, "{">>}

ResponseTexts == {a \o c \o z : a \in JsonPrefixes, c \in JsonCores, z \in JsonSuffixes}

JsonPriorForm == ("a" :> Str(<<"9">>)) @@ ("z" :> Str(<<"9">>))

InitJson ==
    \E text \in ResponseTexts :
        /\ image = FileObj(ImageFile("photo"))
        /\ imagePreview = DataUrl(ImageFile("photo"), 0)
        /\ ocrText = "reading"
        /\ isProcessing = TRUE
        /\ formData = 0
        /\ heap = (0 :> JsonPriorForm)
        /\ results = <<>>
        /\ activeTab = "input"
        /\ fileType = "image"
        /\ storage = Entry(StoredKey)
        /\ apiKey = StoredKey
        /\ showSettings = FALSE
        /\ ocrMode = "structured"
        /\ inputKey = EmptyText
        /\ PreviewInit
        /\ tasks = <<[Task("ocr", NoFile, 0, "structured", image) EXCEPT !.text = text]>>
        /\ now = 0
        /\ download = NoDownload
        /\ last = Done("runOCR", 0, "none", FALSE)

NextJson == OcrDoneResponse(1)

SpecJson == InitJson /\ [][NextJson]_vars

----------------------------------------------------------------------------
(* Form and record store: edits, clears, recognitions of a photo, commits   *)
(* and removals, with a key already saved by an earlier session; a file is  *)
(* chosen only while nothing is pending                                     *)

StoreFiles == {ImageFile("photo")}

StoreEdits == {Str(<<"7">>)}

StoreAnswers == {("patient_id" :> Str(<<"1">>)) @@ ("foo" :> Str(<<"b">>))}

InitStore == InitWith(Entry(StoredKey))

NextStore ==
    \/ \E id \in EditIds, v \in StoreEdits : HandleInputChange(id, v)
    \/ \E c \in BOOLEAN : ClearForm(c)
    \/ AddResult
    \/ \E i \in 1..MaxRecords, c \in BOOLEAN : DeleteClick(i, c)
    \/ \E t \in {"input", "results"} : SetActiveTab(t)
    \/ \E f \in StoreFiles : tasks = <<>> /\ HandleFileSelect(f)
    \/ OcrClick
    \/ ReaderDone(1, TRUE)
    \/ \E obj \in StoreAnswers : OcrDoneObject(1, obj)
    \/ Tick

SpecStore == InitStore /\ [][NextStore]_vars

----------------------------------------------------------------------------
(* The preconditions of recognition: runOCR with or without a bitmap and    *)
(* with or without a key, and the errors of a request                       *)

NextPre ==
    \/ \E f \in StoreFiles : tasks = <<>> /\ HandleFileSelect(f)
    \/ ReaderDone(1, TRUE)
    \/ OcrInvoke
    \/ \E kind \in {"apiKey", "other", "noMessage"} : OcrDoneError(1, kind)
    \/ OcrDoneNull(1)
    \/ OpenSettings
    \/ CloseSettings
    \/ HandleClear(TRUE)

SpecPre == Init /\ [][NextPre]_vars

----------------------------------------------------------------------------
(* From recognition to export: the stores that edits, structured answers    *)
(* and commits build, and their export                                      *)

ExportAnswers == {
    ("patient_id" :> Str(<<"1">>)),
    ("height" :> Num(<<"1", "7", "0">>)),
    ("weight" :> JNull),
    ("comment" :> JObject) }

NextExport ==
    \/ \E id \in EditIds, v \in StoreEdits : HandleInputChange(id, v)
    \/ AddResult
    \/ \E t \in {"input", "results"} : SetActiveTab(t)
    \/ \E f \in StoreFiles : tasks = <<>> /\ HandleFileSelect(f)
    \/ OcrClick
    \/ ReaderDone(1, TRUE)
    \/ \E obj \in ExportAnswers : OcrDoneObject(1, obj)
    \/ DownloadClick

SpecExport == InitStore /\ [][NextExport]_vars

----------------------------------------------------------------------------
(* What a request sends: file selections, page changes and the OCR click,   *)
(* every load succeeding, under every order of completion                   *)

NextSend ==
    \/ \E f \in SelectFiles : HandleFileSelect(f)
    \/ PrevClick
    \/ NextClick
    \/ OcrClick
    \/ \E i \in 1..MaxTasks :
        \/ ReaderDone(i, TRUE)
        \/ PdfCountDone(i, TRUE)
        \/ PdfRenderDone(i, TRUE)
        \/ ChangePageDone(i, TRUE)
        \/ OcrDoneNull(i)

SpecSend == InitDoc /\ [][NextSend]_vars

----------------------------------------------------------------------------
(* Recognition: every handler that enables, starts or settles a request,   *)
(* with a key already saved by an earlier session                           *)

OcrFiles == {ImageFile("photo"), PdfDoc("C", 1)}

OcrAnswers == {("patient_id" :> Str(<<"1">>))}

NextOcr ==
    \/ \E f \in OcrFiles : HandleFileSelect(f)
    \/ OcrClick
    \/ \E m \in {"structured", "text"} : SetOcrMode(m)
    \/ \E c \in BOOLEAN : ClearForm(c)
    \/ \E t \in {"input", "results"} : SetActiveTab(t)
    \/ \E i \in 1..MaxTasks :
        \/ \E ok \in BOOLEAN : ReaderDone(i, ok)
        \/ \E ok \in BOOLEAN : PdfCountDone(i, ok)
        \/ \E ok \in BOOLEAN : PdfRenderDone(i, ok)
        \/ \E obj \in OcrAnswers : OcrDoneObject(i, obj)
        \/ OcrDoneNull(i)
        \/ OcrDoneText(i)
        \/ \E kind \in {"other", "noMessage"} : OcrDoneError(i, kind)

SpecOcr == InitDoc /\ [][NextOcr]_vars

\* the request of a pending recognition settles: its promise resolves or rejects
OcrSettles ==
    \E i \in 1..MaxTasks :
        \/ \E obj \in OcrAnswers : OcrDoneObject(i, obj)
        \/ OcrDoneNull(i)
        \/ OcrDoneText(i)
        \/ \E kind \in {"other", "noMessage"} : OcrDoneError(i, kind)

SpecOcrLive == SpecOcr /\ WF_vars(OcrSettles)

----------------------------------------------------------------------------
(* Properties of the export *)

HasCommaOrNewline(s) == \E i \in 1..Len(s) : s[i] = COMMA \/ s[i] = NL

CountQuotes(s) == Cardinality({i \in 1..Len(s) : s[i] = DQ})

\* what a CSV reader makes of the inside of a quoted cell: "" reads as "
RECURSIVE Undouble(_)
Undouble(s) ==
    IF s = EmptyText THEN EmptyText
    ELSE IF Len(s) >= 2 /\ s[1] = DQ /\ s[2] = DQ THEN <<DQ>> \o Undouble(SubSeq(s, 3, Len(s)))
    ELSE <<s[1]>> \o Undouble(Tail(s))

\* c is v wrapped in quotes with every internal quote doubled
WrappedAndDoubled(c, v) ==
    /\ Len(c) = Len(v) + CountQuotes(v) + 2
    /\ c[1] = DQ
    /\ c[Len(c)] = DQ
    /\ Undouble(SubSeq(c, 2, Len(c) - 1)) = v

\* the string the export reads for field j of record i: absent reads as ''
RawText(i, j) ==
    LET d == heap[results[i].data]
        k == QUESTIONS[j].id
    IN  IF k \in DOMAIN d THEN d[k].s ELSE EmptyText

AllStrings(i) ==
    \A k \in DOMAIN heap[results[i].data] \cap CatalogIds : heap[results[i].data][k].t = "string"

\* C1: a cell written by the export is its value wrapped in double quotes with
\* the internal quotes doubled if and only if the value holds a comma or a
\* newline; any other value, a bare double quote included, is written verbatim.
C1_QuotedIffCommaOrNewline ==
    download.made =>
        \A i \in 1..Len(results) : \A j \in 1..Len(QUESTIONS) :
            AllStrings(i) =>
                LET v == RawText(i, j)
                    c == download.rows[i + 1][j]
                IN  IF HasCommaOrNewline(v) THEN WrappedAndDoubled(c, v) /\ c # v
                    ELSE c = v

C1_Witness ==
    /\ download.made
    /\ \E i \in 1..Len(results) : \E j, k \in 1..Len(QUESTIONS) :
        /\ AllStrings(i)
        /\ HasCommaOrNewline(RawText(i, j)) /\ CountQuotes(RawText(i, j)) > 0
        /\ ~HasCommaOrNewline(RawText(i, k)) /\ CountQuotes(RawText(i, k)) > 0

\* C2: the file has a header row of the |F| labels in catalog order, then one
\* row per record in store order, each of |F| cells; the cell of a field is the
\* record's value for that field, empty when the key is absent, and a key that
\* is no catalog id yields no cell.
C2_CsvShape ==
    download.made =>
        /\ Len(download.rows) = Len(results) + 1
        /\ Len(download.rows[1]) = Len(QUESTIONS)
        /\ \A j \in 1..Len(QUESTIONS) : download.rows[1][j] = <<QUESTIONS[j].label>>
        /\ \A i \in 1..Len(results) :
            /\ Len(download.rows[i + 1]) = Len(QUESTIONS)
            /\ \A j \in 1..Len(QUESTIONS) :
                AllStrings(i) /\ ~HasCommaOrNewline(RawText(i, j)) =>
                    download.rows[i + 1][j] = RawText(i, j)

C2_Witness ==
    /\ download.made
    /\ Len(results) >= 2
    /\ heap[results[1].data] # heap[results[2].data]
    /\ \E i \in 1..Len(results) :
        /\ "foo" \in DOMAIN heap[results[i].data]
        /\ DOMAIN heap[results[i].data] \cap CatalogIds # {}
        /\ ~CatalogIds \subseteq DOMAIN heap[results[i].data]

\* C12: downloadCSV on a store of zero records shows the notice, produces no
\* file and changes no state.
C12_EmptyExportRejected ==
    [][ (last'.op = "downloadCSV" /\ Len(results) = 0) =>
            /\ last'.notice = "nothingToSave"
            /\ ~last'.threw
            /\ download' = download
            /\ UNCHANGED <<appVars, keyVars, previewVars, storeVars, tasks, now>>
      ]_vars

C12_Witness ==
    /\ last.op = "downloadCSV"
    /\ last.notice = "nothingToSave"
    /\ Len(results) = 0
    /\ ~download.made

\* C24: on every non-empty store that edits, structured recognitions and
\* commits can build, values that are not strings included, downloadCSV
\* raises no error and produces the file.
C24_ExportNeverFails ==
    (last.op = "downloadCSV" /\ Len(results) > 0) => (~last.threw /\ download.made)

----------------------------------------------------------------------------
(* Properties of source acquisition *)

C7_PageIndexInRange ==
    /\ 1 <= currentPage
    /\ currentPage <= totalPages
    /\ (isPdfFile /\ tasks = <<>> /\ imagePreview # NullSrc /\ fileType = "pdf")
        => imagePreview = DataUrl(pdfFile, currentPage)

\* C9: the loading flag is true whenever a rasterization started by the mounted
\* preview is pending, so that changePage cannot start during it.
C9_LoadingWhileRasterizing ==
    (\E i \in Rasterizing : ~tasks[i].orphan) => isLoadingPage

\* C14: right after a confirmed clearForm no source document remains: there is
\* no current bitmap, no PDF is held and the page state is reset, so that the
\* navigation bar cannot show a page of the document loaded before the clear.
C14_SourceDiscardedOnClear ==
    (last.op = "clearForm" /\ last.arg = 1) =>
        /\ imagePreview = NullSrc
        /\ image = NullSrc
        /\ ~isPdfFile
        /\ pdfFile = NoFile
        /\ currentPage = 1
        /\ totalPages = 1
        /\ ~NavShown

\* C15: once every pending load has settled, the bitmap, the file type, the
\* PDF flag and the page state all describe the file selected last: for a PDF
\* its current page, for an image the image itself.
C15_LastSelectionWins ==
    tasks = <<>> =>
        IF isPdfFile
        THEN /\ fileType = "pdf"
             /\ totalPages = pdfFile.pages
             /\ currentPage \in 1..totalPages
             /\ imagePreview = DataUrl(pdfFile, currentPage)
             /\ image = imagePreview
        ELSE \/ image = NullSrc /\ imagePreview = NullSrc
             \/ /\ fileType = "image"
                /\ image.k = "file"
                /\ imagePreview = DataUrl(image.f, 0)
                /\ pdfFile = NoFile
                /\ currentPage = 1
                /\ totalPages = 1

\* C16: when the page count or the first page of a selected PDF cannot be
\* had, the notice is shown and the PDF flag, the held PDF, the total pages,
\* the current page and the bitmap are those from before the selection; a
\* failed page change leaves the current page and the bitmap unchanged.
C16_FailedLoadRestores ==
    [][ /\ (last'.notice = "pdfLoadFailed" /\ Len(tasks) = 1 /\ tasks' = <<>>) =>
            SourceDocument' = tasks[1].prior
        /\ (last'.op = "changePage.catch" /\ Len(tasks) = 1 /\ tasks' = <<>>) =>
            UNCHANGED <<currentPage, imagePreview>>
      ]_vars

----------------------------------------------------------------------------
(* Properties of the form and the record store *)

Data(i) == heap[results[i].data]

\* C3: a committed record's data is a copy that the store alone holds: no edit
\* of a field, confirmed clear or recognition result changes the data of any
\* committed record, a commit stores the Form State of that moment, and no
\* record's data is the live Form State object.
C3_CommitCopies ==
    [][ /\ last'.op # "onDeleteResult" =>
            /\ Len(results') >= Len(results)
            /\ \A i \in 1..Len(results) :
                /\ results'[i].id = results[i].id
                /\ heap'[results'[i].data] = heap[results[i].data]
            /\ Len(results') > Len(results) =>
                /\ Len(results') = Len(results) + 1
                /\ heap'[results'[Len(results')].data] = heap[formData]
        /\ \A i \in 1..Len(results') : results'[i].data # formData'
      ]_vars

\* the form has been edited, cleared or refilled after a commit
C3_Witness ==
    /\ last.op \in {"handleInputChange", "clearForm", "runOCR.object"}
    /\ \E i \in 1..Len(results) : Data(i) # heap[formData] /\ Data(i) # EmptyObj
    /\ \E i \in 1..Len(results) : Data(i) = EmptyObj

\* C4: right after a commit, removing the id of the new record gives back the
\* store as it was before the commit.
C4_CommitRemoveRoundTrip ==
    (last.op = "addResult" /\ Len(results) > 0) =>
        onDeleteResult(results, results[Len(results)].id)
            = SubSeq(results, 1, Len(results) - 1)

\* C5: the records of the store have pairwise distinct ids.
C5_UniqueIds ==
    \A i, j \in 1..Len(results) : i # j => results[i].id # results[j].id

\* C10: every key of the Form State, and of the data of every committed
\* record, is a catalog id.
C10_FormKeysInCatalog ==
    /\ DOMAIN heap[formData] \subseteq CatalogIds
    /\ \A i \in 1..Len(results) : DOMAIN Data(i) \subseteq CatalogIds

\* C13: clearForm empties the Form State only when the user confirms; when the
\* user declines, the Form State, the OCR text and the source image stay as
\* they were; either way the Record Store is unchanged.
C13_ClearGatedByConfirm ==
    [][ last'.op = "clearForm" =>
            /\ last'.arg = 1 => heap'[formData'] = EmptyObj
            /\ last'.arg = 0 =>
                /\ heap'[formData'] = heap[formData]
                /\ UNCHANGED <<ocrText, image, imagePreview, fileType>>
            /\ Len(results') = Len(results)
            /\ \A i \in 1..Len(results) :
                /\ results'[i].id = results[i].id
                /\ results'[i].timestamp = results[i].timestamp
                /\ heap'[results'[i].data] = heap[results[i].data]
      ]_vars

\* the user declined while the form, the text, the image and the store were set
C13_Witness ==
    /\ last.op = "clearForm"
    /\ last.arg = 0
    /\ heap[formData] # EmptyObj
    /\ ocrText # "empty"
    /\ image # NullSrc
    /\ imagePreview # NullSrc
    /\ Len(results) > 0

\* the records as the user sees them: id, timestamp and the content of the data
RecordsOf(rs, h) ==
    [i \in 1..Len(rs) |-> [id |-> rs[i].id, timestamp |-> rs[i].timestamp, data |-> h[rs[i].data]]]

\* C21: a removal happens only after the user confirms; it drops the one entry
\* whose id matches and leaves every other record unchanged and in the same
\* order; declining leaves the store unchanged; removing an id that no record
\* has leaves the store unchanged.
C21_RemoveDropsOneEntry ==
    [][ /\ (last'.op = "onDeleteResult" /\ now' = now) =>
            IF last'.arg = 1
            THEN \E i \in 1..Len(results) :
                    RecordsOf(results', heap') = Remove(RecordsOf(results, heap), i)
            ELSE RecordsOf(results', heap') = RecordsOf(results, heap)
        /\ \A id \in 0..(MaxClock + 1) :
            (\A i \in 1..Len(results) : results[i].id # id) =>
                onDeleteResult(results, id) = results
      ]_vars

\* C22: whatever the Form State holds, addResult makes the store one record
\* longer, the new record is the last one and its data equals the Form State,
\* the earlier records and their order are unchanged, and the Form State is
\* unchanged.
C22_CommitAppends ==
    [][ (last'.op = "addResult" /\ now' = now) =>
            /\ Len(results') = Len(results) + 1
            /\ SubSeq(RecordsOf(results', heap'), 1, Len(results)) = RecordsOf(results, heap)
            /\ RecordsOf(results', heap')[Len(results')].data = heap[formData]
            /\ heap'[formData'] = heap[formData]
      ]_vars

\* an empty form has been committed after a filled one
C22_Witness ==
    /\ last.op = "addResult"
    /\ Len(results) = 2
    /\ Data(1) # EmptyObj
    /\ Data(2) = EmptyObj
    /\ heap[formData] = EmptyObj

\* C26: a recognition result is not applied to a form that was cleared or
\* edited after the recognition started: when the handler that ran last before
\* the result arrives is a confirmed clearForm or an edit of a field, the form
\* it left is the Form State after the result as well.
C26_LateResultKeepsForm ==
    [][ (/\ last'.op = "runOCR.object"
         /\ Pending("ocr") # {}
         /\ \/ last.op = "clearForm" /\ last.arg = 1
            \/ last.op = "handleInputChange")
        => heap'[formData'] = heap[formData] ]_vars

----------------------------------------------------------------------------
(* Properties of recognition *)

\* C8: at most one recognition request is in flight, and isProcessing, which
\* disables the OCR button, is true exactly while one is pending.
C8_OneRequestInFlight ==
    /\ Cardinality(Pending("ocr")) <= 1
    /\ isProcessing <=> Pending("ocr") # {}

\* a request is pending while nothing else keeps the button disabled
C8_Witness ==
    /\ Pending("ocr") # {}
    /\ activeTab = "input"
    /\ imagePreview # NullSrc
    /\ ~isLoadingPage
    /\ apiKey # EmptyText

\* C11: a failed recognition leaves the Form State as it was and its two kinds
\* are told apart: the null result of structured recognition shows the
\* extraction warning and raises nothing, an error raised by the request shows
\* the error message, and neither shows what a success shows.
C11_FailureLeavesForm ==
    [][ /\ last'.op = "runOCR.null" =>
            /\ heap'[formData'] = heap[formData]
            /\ ocrText' = "extractionFailed"
            /\ ~last'.threw
        /\ last'.op = "runOCR.catch" =>
            /\ heap'[formData'] = heap[formData]
            /\ ocrText' = "error"
        /\ last'.op = "runOCR.object" => ocrText' = "filled"
      ]_vars

\* a recognition came back null over a form that an earlier one had filled
C11_Witness ==
    /\ last.op = "runOCR.null"
    /\ heap[formData] # EmptyObj
    /\ ocrText = "extractionFailed"

\* where the run of braces that opens at p closes again, or 0
RECURSIVE BalancedEnd(_, _, _)
BalancedEnd(s, p, depth) ==
    IF p > Len(s) THEN 0
    ELSE LET d == depth + (IF s[p] = "{" THEN 1 ELSE IF s[p] = "}" THEN -1 ELSE 0)
         IN  IF d = 0 THEN p ELSE BalancedEnd(s, p + 1, d)

\* the first balanced {...} substring of a text
FirstBalanced(s) ==
    LET starts == {a \in 1..Len(s) : s[a] = "{" /\ BalancedEnd(s, a, 0) > 0}
    IN  IF starts = {} THEN NoMatch
        ELSE LET a == CHOOSE i \in starts : \A j \in starts : i <= j
             IN  [found |-> TRUE, s |-> SubSeq(s, a, BalancedEnd(s, a, 0))]

\* the step is the return of structured recognition for the one pending request
StructuredReturn ==
    /\ Len(tasks) = 1
    /\ tasks[1].type = "ocr"
    /\ tasks[1].mode = "structured"
    /\ tasks' = <<>>
    /\ last'.op \in {"runOCR.object", "runOCR.null"}

\* C18: structured recognition returns the parse of the first balanced {...}
\* substring of the response text, and null exactly when the text has no such
\* substring or the substring does not parse as JSON.
C18_FirstBalancedObject ==
    [][ StructuredReturn =>
            LET b == FirstBalanced(tasks[1].text)
            IN  IF b.found /\ JsonParse(b.s).ok
                THEN /\ last'.op = "runOCR.object"
                     /\ heap'[formData'] = JsonParse(b.s).m
                ELSE last'.op = "runOCR.null"
      ]_vars

\* C20: after a successful structured recognition the Form State is the
\* returned object: nothing of the earlier Form State survives unless the
\* returned object holds it.
C20_StructuredReplacesForm ==
    [][ (StructuredReturn /\ last'.op = "runOCR.object") =>
            LET structuredData == runGeminiOCRStructured(tasks[1].text)
            IN  /\ ~structuredData.null
                /\ heap'[formData'] = structuredData.obj
                /\ \A k \in DOMAIN heap[formData] :
                       k \notin DOMAIN structuredData.obj => k \notin DOMAIN heap'[formData']
      ]_vars

\* the answer has replaced a form that held a field the answer lacks and a
\* field the answer holds with another value
C20_Witness ==
    /\ last.op = "runOCR.object"
    /\ "z" \notin DOMAIN heap[formData]
    /\ "a" \in DOMAIN heap[formData]
    /\ heap[formData]["a"] # JsonPriorForm["a"]

\* C19: whenever isProcessing is true, then provided the pending request
\* settles, isProcessing becomes false again: on success, on the null result
\* and on every error, one without a message text included.
C19_ReturnsControl == isProcessing ~> ~isProcessing

\* an error without a message was caught, the catch block raised in turn, and
\* the OCR control is enabled again
C19_Witness ==
    /\ last.op = "runOCR.catch"
    /\ last.threw
    /\ ~isProcessing
    /\ Pending("ocr") = {}
    /\ activeTab = "input"
    /\ ~OcrDisabled

\* C23: runOCR without a bitmap or without an API key sends no request, leaves
\* isProcessing false and the Form State and the OCR text unchanged, and
\* shows a notice; without a key it opens the settings dialog; after a
\* request error the dialog is opened exactly when the error text names the
\* API key.
C23_PreconditionsMakeNoRequest ==
    [][ /\ (last'.op = "runOCR" /\ (imagePreview = NullSrc \/ apiKey = EmptyText)) =>
            /\ tasks' = tasks
            /\ ~isProcessing'
            /\ heap'[formData'] = heap[formData]
            /\ ocrText' = ocrText
            /\ last'.notice \in {"selectFileFirst", "setApiKey"}
            /\ imagePreview # NullSrc => showSettings'
        /\ last'.op = "runOCR.catch" =>
            (showSettings' <=> (showSettings \/ last'.arg = "apiKey"))
      ]_vars

\* runOCR was called with a bitmap and no key
C23_Witness ==
    /\ last.op = "runOCR"
    /\ last.notice = "setApiKey"
    /\ imagePreview # NullSrc
    /\ apiKey = EmptyText
    /\ showSettings
    /\ tasks = <<>>
    /\ ~isProcessing

\* C25: whenever runOCR starts a request, the image source it sends is of the
\* same file and page as the bitmap that the preview shows.
C25_SendsDisplayedBitmap ==
    [][ (last'.op = "runOCR" /\ Len(tasks') = Len(tasks) + 1) =>
            LET imageSource == tasks'[Len(tasks')].src
            IN  /\ imageSource.f = imagePreview.f
                /\ imageSource.p = imagePreview.p
      ]_vars

----------------------------------------------------------------------------
(* Properties of the API key *)

\* C17: after a save, storage holds the saved key under gemini_api_key and the
\* key in memory equals it; after a confirmed delete of the key, storage holds
\* no entry under gemini_api_key and the key in memory is empty.
C17_KeyLifecycle ==
    [][ /\ (last'.op = "handleSave" /\ last'.notice = "none") =>
            /\ storage' = Entry(Trim(inputKey))
            /\ apiKey' = Trim(inputKey)
        /\ (last'.op = "handleClear" /\ last'.arg = 1) =>
            /\ storage' = NoEntry
            /\ apiKey' = EmptyText
      ]_vars

====
